---- MODULE Spec2Model ----
(***************************************************************************)
(* Model of make_omim_disease_database.py: the MGDEF reader, the           *)
(* MedGen/OMIM mapping reader, the row-by-row join of build_list_of_dicts  *)
(* and the orchestration in main.                                          *)
(*                                                                         *)
(* A Python str is the sequence of its characters, each a one-character    *)
(* string; "" is the empty sequence.                                       *)
(***************************************************************************)
EXTENDS Integers, Sequences, FiniteSets, TLC

VARIABLES
    mgdef_file,     \* args.mgdef on disk: [exists, lines] (lines = splitlines of the text)
    mapping_file,   \* args.mapping on disk: [exists, lines]
    pc,             \* position of main / of the function under study
    err,            \* the exception that ended the run, "none" while running
    cui_def_map,    \* read_mgdef_map's result, a function CUI -> DEF
    mapping_df,     \* read_medgen_mapping's result: [columns, rows]
    colmap,         \* build_list_of_dicts.colmap: lower-cased title -> column (line 149)
    row_i,          \* number of mapping_df rows the loop of build_list_of_dicts has consumed
    ss,             \* the set of seen OMIM_CUI
    results,        \* the list under construction
    hpo_fallback,   \* TRUE once line 181 (the HPO_CUI lookup) has run
    output,         \* args.output on disk: <<"absent">> or <<"json", list>>
    header_line,    \* argument of detect_delim_from_header (delimiter study)
    delim           \* its result

vars == <<mgdef_file, mapping_file, pc, err, cui_def_map, mapping_df, colmap, row_i, ss,
          results, hpo_fallback, output, header_line, delim>>

-----------------------------------------------------------------------------
(* Bounds *)

MaxRows == 3          \* data lines of a mapping file
MaxDefLines == 3      \* data lines of a definitions file (definition-reader study)
MaxHeaderLen == 3     \* characters of a header line (delimiter study)

-----------------------------------------------------------------------------
(* str primitives *)

TAB == "\t"
NL == "\n"
SP == " "
COMMA == ","
PIPE == "|"
HASH == "#"

\* str.isspace for the characters of the model
IsSpace(c) == c \in {SP, TAB, NL}

RECURSIVE lstrip(_)
lstrip(s) == IF s # <<>> /\ IsSpace(Head(s)) THEN lstrip(Tail(s)) ELSE s

RECURSIVE rstrip(_)
rstrip(s) ==
    IF s # <<>> /\ IsSpace(s[Len(s)]) THEN rstrip(SubSeq(s, 1, Len(s) - 1)) ELSE s

\* str.strip()
strip(s) == rstrip(lstrip(s))

\* str.lstrip("#")
RECURSIVE lstrip_hash(_)
lstrip_hash(s) == IF s # <<>> /\ Head(s) = HASH THEN lstrip_hash(Tail(s)) ELSE s

\* c in s
Contains(s, c) == \E k \in 1..Len(s) : s[k] = c

\* s.split(d) for a one-character d
RECURSIVE split(_, _)
split(s, d) ==
    IF Contains(s, d)
    THEN LET k == CHOOSE k \in 1..Len(s) : s[k] = d /\ \A j \in 1..(k - 1) : s[j] # d
         IN  <<SubSeq(s, 1, k - 1)>> \o split(SubSeq(s, k + 1, Len(s)), d)
    ELSE <<s>>

\* d.join(parts)
RECURSIVE join(_, _)
join(parts, d) ==
    IF parts = <<>> THEN <<>>
    ELSE IF Len(parts) = 1 THEN parts[1]
    ELSE parts[1] \o <<d>> \o join(Tail(parts), d)

\* the cased characters (files are ASCII) and their lower-case forms
UpperChars ==
    << "A", "B", "C", "D", "E", "F", "G", "H", "I", "J", "K", "L", "M", "N",
       "O", "P", "Q", "R", "S", "T", "U", "V", "W", "X", "Y", "Z" >>
LowerChars ==
    << "a", "b", "c", "d", "e", "f", "g", "h", "i", "j", "k", "l", "m", "n",
       "o", "p", "q", "r", "s", "t", "u", "v", "w", "x", "y", "z" >>

\* the lower-case form of each cased character
LowerOf ==
    [c \in {UpperChars[i] : i \in 1..Len(UpperChars)} |->
        LowerChars[CHOOSE i \in 1..Len(UpperChars) : UpperChars[i] = c]]

\* str.lower() of one character: a capital letter becomes its small letter,
\* every other character is left alone
lower_char(c) == IF c \in DOMAIN LowerOf THEN LowerOf[c] ELSE c

\* str.lower()
lower(s) == [k \in 1..Len(s) |-> lower_char(s[k])]

\* the subsequence of seq at the indices in S, in order (a boolean mask / a filter)
RECURSIVE Mask(_, _)
Mask(seq, S) ==
    IF seq = <<>> THEN <<>>
    ELSE LET n == Len(seq)
             front == Mask(SubSeq(seq, 1, n - 1), S)
         IN  IF n \in S THEN Append(front, seq[n]) ELSE front

-----------------------------------------------------------------------------
(* detect_delim_from_header *)

\* variant: the pipe is tested before the comma
detect_delim_pipe_first(h) ==
    IF Contains(h, TAB) THEN TAB
    ELSE IF Contains(h, PIPE) THEN PIPE
    ELSE IF Contains(h, COMMA) THEN COMMA
    ELSE TAB

detect_delim_from_header(h) ==
    IF Contains(h, TAB) THEN TAB
    ELSE IF Contains(h, COMMA) THEN COMMA
    ELSE IF Contains(h, PIPE) THEN PIPE
    ELSE TAB

-----------------------------------------------------------------------------
(* The part of pandas.read_csv(engine="python", dtype=str,                 *)
(* keep_default_na=False) the two readers rely on.  Input files hold no    *)
(* quote character and no row wider than the header.                       *)

\* a missing trailing cell of a short row
NaN == <<"<NaN>">>

\* the physical lines of a text as a file object yields them: a newline ends
\* a line, so a text that ends with a newline has no empty last line, and the
\* empty text has no line
readlines(text) ==
    LET ls == split(text, NL)
    IN  IF ls[Len(ls)] = <<>> THEN SubSeq(ls, 1, Len(ls) - 1) ELSE ls

\* csv.reader: each physical line cut at the separator, an empty line gives []
csv_lines(text, d) ==
    LET ls == readlines(text)
    IN  [k \in 1..Len(ls) |-> IF ls[k] = <<>> THEN <<>> ELSE split(ls[k], d)]

\* skip_blank_lines: a line survives if it has two cells or one non-blank cell
csv_nonblank(parsed) ==
    Mask(parsed, {k \in 1..Len(parsed) :
                    \/ Len(parsed[k]) > 1
                    \/ (Len(parsed[k]) = 1 /\ strip(parsed[k][1]) # <<>>)})

\* rows are padded to the number of columns
pad(r, n) == [k \in 1..n |-> IF k <= Len(r) THEN r[k] ELSE NaN]

\* read_csv(..., header=None, names=names): [err, columns, rows]; names with a
\* repeated title are refused (ValueError: Duplicate names are not allowed.)
read_csv_names(text, d, names) ==
    LET body == csv_nonblank(csv_lines(text, d))
    IN  IF \E j, k \in 1..Len(names) : j # k /\ names[j] = names[k]
        THEN [err |-> "DuplicateNames", columns |-> names, rows |-> <<>>]
        ELSE [err     |-> "none",
              columns |-> names,
              rows    |-> [k \in 1..Len(body) |-> pad(body[k], Len(names))]]

\* str(n) for a natural number
Digits == <<"0", "1", "2", "3", "4", "5", "6", "7", "8", "9">>

RECURSIVE str_of_nat(_)
str_of_nat(n) ==
    IF n < 10 THEN <<Digits[n + 1]>>
    ELSE Append(str_of_nat(n \div 10), Digits[(n % 10) + 1])

\* the titles read_csv gives the columns of a header row: an empty title at
\* (0-based) position i becomes "Unnamed: i"
unnamed_title(i) ==
    <<"U", "n", "n", "a", "m", "e", "d", ":", SP>> \o str_of_nat(i)

name_columns(line) ==
    [k \in 1..Len(line) |-> IF line[k] = <<>> THEN unnamed_title(k - 1) ELSE line[k]]

\* counts[c] of the defaultdict(int) that numbers repeated titles
count_of(counts, c) == IF c \in DOMAIN counts THEN counts[c] ELSE 0

count_set(counts, c, v) ==
    [x \in DOMAIN counts \cup {c} |-> IF x = c THEN v ELSE counts[x]]

\* the while loop that looks for a free title old.1, old.2, ...: [col, counts]
RECURSIVE dedup_title(_, _, _, _, _)
dedup_title(cols, counts, old, col, cur) ==
    IF cur = 0 THEN [col |-> col, counts |-> counts]
    ELSE LET counts1 == count_set(counts, old, cur + 1)
             cand    == old \o <<".">> \o str_of_nat(cur)
         IN  IF \E k \in 1..Len(cols) : cols[k] = cand
             THEN dedup_title(cols, counts1, old, cand, cur + 1)
             ELSE dedup_title(cols, counts1, old, cand, count_of(counts1, cand))

\* mangle_dupe_cols: the columns are visited in the given order (titled ones
\* first, then the unnamed ones) and a repeated title t becomes t.1, t.2, ...
RECURSIVE mangle_dupe_cols(_, _, _)
mangle_dupe_cols(cols, counts, order) ==
    IF order = <<>> THEN cols
    ELSE LET i    == Head(order)
             r    == dedup_title(cols, counts, cols[i], cols[i], count_of(counts, cols[i]))
             cols1 == [cols EXCEPT ![i] = r.col]
         IN  mangle_dupe_cols(cols1, count_set(r.counts, r.col, 1), Tail(order))

\* the column titles read_csv(header=0) derives from the header row
header_columns(line) ==
    LET named   == {k \in 1..Len(line) : line[k] # <<>>}
        idx     == [k \in 1..Len(line) |-> k]
        order   == Mask(idx, named) \o Mask(idx, (1..Len(line)) \ named)
    IN  mangle_dupe_cols(name_columns(line), <<>>, order)

\* read_csv(..., header=0): the first surviving line gives the column names
read_csv_header(text, d) ==
    LET body == csv_nonblank(csv_lines(text, d))
    IN  [columns |-> header_columns(body[1]),
         rows    |-> [k \in 1..(Len(body) - 1) |-> pad(body[k + 1], Len(body[1]))]]

\* Series.astype(str) on an object column: a missing cell becomes the text "nan"
astype_str(v) == IF v = NaN THEN <<"n", "a", "n">> ELSE v

\* DataFrame.fillna("")
fillna(v) == IF v = NaN THEN <<>> ELSE v

\* {c.lower(): c for c in columns}: [key] is the position of the LAST column
\* whose lower-cased title is key; the key set is the domain
cols_lower_keys(columns) == {lower(columns[k]) : k \in 1..Len(columns)}

cols_lower_pos(columns, key) ==
    CHOOSE k \in 1..Len(columns) :
        /\ lower(columns[k]) = key
        /\ \A j \in (k + 1)..Len(columns) : lower(columns[j]) # key

\* index (1-based) of the first line that is not blank, Len + 1 if none
RECURSIVE first_non_blank_from(_, _)
first_non_blank_from(lines, k) ==
    IF k <= Len(lines) /\ strip(lines[k]) = <<>>
    THEN first_non_blank_from(lines, k + 1) ELSE k

first_non_blank(lines) == first_non_blank_from(lines, 1)

-----------------------------------------------------------------------------
(* read_mgdef_map *)

K_CUI == <<"c", "u", "i">>
K_DEF == <<"d", "e", "f">>

\* lines 74-75: the (CUI, DEF) pairs of the frame, both stripped
mgdef_pairs(df) ==
    LET ci == cols_lower_pos(df.columns, K_CUI)
        di == cols_lower_pos(df.columns, K_DEF)
    IN  [k \in 1..Len(df.rows) |->
            <<strip(astype_str(df.rows[k][ci])), strip(astype_str(df.rows[k][di]))>>]

\* variant: only the CUI is tested
mgdef_filter_cui_only(pairs) ==
    Mask(pairs, {k \in 1..Len(pairs) : pairs[k][1] # <<>>})

\* line 76: df[(df[col_cui] != "") & (df[col_def] != "")]
mgdef_filter(pairs) ==
    Mask(pairs, {k \in 1..Len(pairs) : pairs[k][1] # <<>> /\ pairs[k][2] # <<>>})

\* variant: no deduplication, so that to_dict keeps the last value
drop_duplicates_none(pairs) == pairs

\* line 79: drop_duplicates(subset=[col_cui], keep="first")
drop_duplicates(pairs) ==
    Mask(pairs, {k \in 1..Len(pairs) : \A j \in 1..(k - 1) : pairs[j][1] # pairs[k][1]})

\* line 81: pd.Series(values, index).to_dict(); a repeated index keeps its last value
to_dict(pairs) ==
    [c \in {pairs[k][1] : k \in 1..Len(pairs)} |->
        LET k == CHOOSE k \in 1..Len(pairs) :
                    /\ pairs[k][1] = c
                    /\ \A j \in (k + 1)..Len(pairs) : pairs[j][1] # c
        IN  pairs[k][2]]

\* the outcome of read_mgdef_map on a file: [err, map]
mgdef_result(file) ==
    IF ~file.exists THEN [err |-> "NotFound", map |-> <<>>]
    ELSE LET lines == file.lines
             idx   == first_non_blank(lines)
         IN  IF idx > Len(lines) THEN [err |-> "EmptyInput", map |-> <<>>]
             ELSE LET d  == detect_delim_from_header(strip(lines[idx]))
                      df == read_csv_header(join(SubSeq(lines, idx, Len(lines)), NL), d)
                  IN  IF K_CUI \notin cols_lower_keys(df.columns)
                         \/ K_DEF \notin cols_lower_keys(df.columns)
                      THEN [err |-> "MissingColumns", map |-> <<>>]
                      ELSE [err |-> "none",
                            map |-> to_dict(drop_duplicates(mgdef_filter(mgdef_pairs(df))))]

-----------------------------------------------------------------------------
(* read_medgen_mapping *)

\* lines 101-105: the header line without its comment marker
mapping_header_clean(lines) ==
    LET hl == strip(lines[first_non_blank(lines)])
    IN  IF Head(hl) = HASH THEN strip(lstrip_hash(hl)) ELSE hl

\* the outcome of read_medgen_mapping on a file: [err, df]
mapping_result(file) ==
    IF ~file.exists THEN [err |-> "NotFound", df |-> [columns |-> <<>>, rows |-> <<>>]]
    ELSE LET lines == file.lines
             idx   == first_non_blank(lines)
         IN  IF idx > Len(lines)
             THEN [err |-> "EmptyInput", df |-> [columns |-> <<>>, rows |-> <<>>]]
             ELSE LET header_clean == mapping_header_clean(lines)
                      d            == detect_delim_from_header(header_clean)
                      parts        == split(header_clean, d)
                      header_cols  == [k \in 1..Len(parts) |-> strip(parts[k])]
                      data_lines   == SubSeq(lines, idx + 1, Len(lines))
                      data_text    == strip(join(data_lines, NL))
                      raw          == read_csv_names(data_text, d, header_cols)
                  IN  IF data_text = <<>>
                      THEN [err |-> "none", df |-> [columns |-> header_cols, rows |-> <<>>]]
                      ELSE IF raw.err # "none"
                      THEN [err |-> raw.err, df |-> [columns |-> <<>>, rows |-> <<>>]]
                      ELSE [err |-> "none",
                            df  |-> [columns |-> header_cols,
                                     rows    |-> [k \in 1..Len(raw.rows) |->
                                                    [c \in 1..Len(header_cols) |->
                                                        strip(fillna(raw.rows[k][c]))]]]]

-----------------------------------------------------------------------------
(* build_list_of_dicts *)

N_OMIM_CUI == <<"O", "M", "I", "M", "_", "C", "U", "I">>
N_MIM_number == <<"M", "I", "M", "_", "n", "u", "m", "b", "e", "r">>
N_OMIM_name == <<"O", "M", "I", "M", "_", "n", "a", "m", "e">>
N_HPO_CUI == <<"H", "P", "O", "_", "C", "U", "I">>
NA == <<"N", "A">>

\* line 149: colmap = {c.lower(): c for c in mapping_df.columns}, each title
\* standing for its column; a repeated key keeps the last column
make_colmap(columns) ==
    [key \in cols_lower_keys(columns) |-> cols_lower_pos(columns, key)]

\* lines 151-153: case-insensitive cell lookup, "" for a column the frame lacks
get(cm, row, name) ==
    LET key == lower(name)
    IN  IF key \in DOMAIN cm THEN row[cm[key]] ELSE <<>>

\* line 158
all_empty(row) == \A k \in 1..Len(row) : strip(row[k]) = <<>>

\* variant: a missing key gives "" whatever the default
dict_get_empty(map, key, default) == IF key \in DOMAIN map THEN map[key] ELSE <<>>

\* dict.get(key, default)
dict_get(map, key, default) == IF key \in DOMAIN map THEN map[key] ELSE default

\* variant: the seen set is never consulted
seen_never(set, omim_cui) == FALSE

\* line 170: omim_cui in ss
seen(set, omim_cui) == omim_cui \in set

\* line 180: the condition of the HPO_CUI fallback
takes_fallback(map, omim_cui, hpo_cui) ==
    dict_get(map, omim_cui, NA) = <<>> /\ hpo_cui # <<>>

\* variant: HPO_CUI is looked up first whenever the row has one
medgen_disease_info_hpo_first(map, omim_cui, hpo_cui) ==
    IF hpo_cui # <<>> THEN dict_get(map, hpo_cui, NA) ELSE dict_get(map, omim_cui, NA)

\* lines 178-181
medgen_disease_info(map, omim_cui, hpo_cui) ==
    IF takes_fallback(map, omim_cui, hpo_cui)
    THEN dict_get(map, hpo_cui, NA)
    ELSE dict_get(map, omim_cui, NA)

\* variant: medgen_concept_id = hpo_cui or omim_cui, as the docstring has it
entry_prefer_hpo(map, mim_number, omim_name, omim_cui, hpo_cui) ==
    [_id                 |-> mim_number,
     omim_id             |-> mim_number,
     omim_disease        |-> omim_name,
     medgen_concept_id   |-> IF hpo_cui # <<>> THEN hpo_cui ELSE omim_cui,
     medgen_disease_info |-> medgen_disease_info(map, omim_cui, hpo_cui)]

\* lines 183-189
entry(map, mim_number, omim_name, omim_cui, hpo_cui) ==
    [_id                 |-> mim_number,
     omim_id             |-> mim_number,
     omim_disease        |-> omim_name,
     medgen_concept_id   |-> omim_cui,
     medgen_disease_info |-> medgen_disease_info(map, omim_cui, hpo_cui)]

\* variant: the entry is inserted at the front
append_entry_front(list, e) == <<e>> \o list

\* line 190: results.append(entry)
append_entry(list, e) == Append(list, e)

\* lines 158-172: does the loop body leave the row out
row_skipped(cm, row, set) ==
    \/ all_empty(row)
    \/ get(cm, row, N_MIM_number) = <<>>
    \/ get(cm, row, N_OMIM_CUI) = <<>>
    \/ seen(set, get(cm, row, N_OMIM_CUI))

-----------------------------------------------------------------------------
(* Input files *)

\* all sequences over S of length at most n
RECURSIVE SeqsUpTo(_, _)
SeqsUpTo(S, n) ==
    IF n = 0 THEN {<<>>}
    ELSE LET shorter == SeqsUpTo(S, n - 1)
         IN  shorter \cup {Append(q, x) : q \in shorter, x \in S}

\* one text line: the cells of a logical row in the column order of a header
line_of(order, d, cells) == join([k \in 1..Len(order) |-> cells[order[k]]], d)

\* Definitions files.  A layout is a header line with its separator and the
\* logical content (cui, def, src) of each of its columns.
DefLayouts ==
    { [lead |-> <<>>, header |-> <<"C", "U", "I", COMMA, "D", "E", "F">>, d |-> COMMA,
       order |-> <<"cui", "def">>],
      [lead |-> << <<SP>> >>, header |-> <<"D", "E", "F", TAB, "C", "U", "I">>, d |-> TAB,
       order |-> <<"def", "cui">>],
      [lead |-> <<>>, d |-> PIPE,
       header |-> <<"C", "u", "i", PIPE, "d", "e", "f", PIPE, "s", "o", "u", "r", "c", "e">>,
       order |-> <<"cui", "def", "src">>],
      [lead |-> <<>>, d |-> COMMA,                      \* the title DEF twice
       header |-> <<"C", "U", "I", COMMA, "D", "E", "F", COMMA, "D", "E", "F">>,
       order |-> <<"cui", "def", "src">>] }

DefCells ==
    { [cui |-> <<"C", "1">>,         def |-> <<"d", "1">>,         src |-> <<"s">>],
      [cui |-> <<"C", "1">>,         def |-> <<"d", "2">>,         src |-> <<"s">>],
      [cui |-> <<"C", "2">>,         def |-> <<"d", "3">>,         src |-> <<"s">>],
      [cui |-> <<>>,             def |-> <<"d", "2">>,         src |-> <<"s">>],
      [cui |-> <<"C", "1">>,         def |-> <<>>,             src |-> <<"s">>],
      [cui |-> <<SP, "C", "1", SP>>, def |-> <<SP, "d", "2", SP>>, src |-> <<"s">>],
      [cui |-> <<"C", "2">>,         def |-> <<SP>>,           src |-> <<"s">>] }

DefLines(lay) == {line_of(lay.order, lay.d, c) : c \in DefCells} \cup {<<>>}

ErrorFiles ==
    { [exists |-> FALSE, lines |-> <<>>],                     \* no such path
      [exists |-> TRUE,  lines |-> <<>>],                     \* empty file
      [exists |-> TRUE,  lines |-> << <<SP>>, <<>> >>] }      \* blank lines only

text_file(lead, header, body) == [exists |-> TRUE, lines |-> lead \o <<header>> \o body]

\* the definitions files of the definition-reader study
DefStudyFiles ==
    UNION { {text_file(lay.lead, lay.header, body) :
                body \in SeqsUpTo(DefLines(lay), MaxDefLines)} : lay \in DefLayouts }

\* the definitions files of the whole-program runs
MainDefFiles ==
    ErrorFiles \cup
    { text_file(<<>>, <<"C", "U", "I">>, << <<"C", "1">> >>),                       \* no DEF column
      text_file(<<>>, <<"C", "U", "I", COMMA, "D", "E", "F">>, << <<"C", "1", COMMA, "d", "1">> >>),
      text_file(<<>>, <<"C", "U", "I", COMMA, "D", "E", "F">>,
                << <<"C", "1", COMMA>>, <<"C", "2", COMMA, "d", "2">> >>) }

\* Mapping files.
MapLayouts ==
    { [lead |-> <<>>, d |-> TAB,
       header |-> <<HASH>> \o N_MIM_number \o <<TAB>> \o N_OMIM_name \o <<TAB>>
                     \o N_OMIM_CUI \o <<TAB>> \o N_HPO_CUI,
       order |-> <<"mim", "name", "ocui", "hcui">>],
      [lead |-> << <<>> >>, d |-> COMMA,
       header |-> <<HASH, SP, "M", "i", "m", "_", "N", "u", "m", "b", "e", "r", SP, COMMA>>
                     \o N_OMIM_name \o <<COMMA>> \o N_OMIM_CUI \o <<COMMA>> \o N_HPO_CUI,
       order |-> <<"mim", "name", "ocui", "hcui">>],
      [lead |-> <<>>, d |-> PIPE,
       header |-> N_OMIM_CUI \o <<PIPE>> \o N_MIM_number \o <<PIPE>> \o N_OMIM_name,
       order |-> <<"ocui", "mim", "name">>] }

MapCells ==
    { [mim |-> <<"1", "0", "0">>,     name |-> <<"n", "A">>, ocui |-> <<"C", "1">>,         hcui |-> <<"C", "2">>],
      [mim |-> <<"2", "0", "0">>,     name |-> <<"n", "B">>, ocui |-> <<"C", "1">>,         hcui |-> <<>>],
      [mim |-> <<SP, "3", "0", "0">>, name |-> <<"n", "C">>, ocui |-> <<SP, "C", "2", SP>>, hcui |-> <<>>],
      [mim |-> <<>>,          name |-> <<"n", "B">>, ocui |-> <<"C", "1">>,         hcui |-> <<"C", "2">>],
      [mim |-> <<"3", "0", "0">>,     name |-> <<"n", "A">>, ocui |-> <<SP>>,           hcui |-> <<"C", "1">>],
      [mim |-> <<>>,          name |-> <<>>,     ocui |-> <<>>,             hcui |-> <<>>] }

MapLines(lay) == {line_of(lay.order, lay.d, c) : c \in MapCells} \cup {<<>>}

\* mapping files whose header has the title OMIM_CUI twice
DupTitleHeader == N_MIM_number \o <<PIPE>> \o N_OMIM_CUI \o <<PIPE>> \o N_OMIM_CUI

DupTitleFiles ==
    { text_file(<<>>, DupTitleHeader, <<>>),
      text_file(<<>>, DupTitleHeader, << <<"1", PIPE, "C", "1", PIPE, "C", "2">> >>) }

MappingFiles ==
    ErrorFiles \cup DupTitleFiles \cup
    UNION { {text_file(lay.lead, lay.header, body) :
                body \in SeqsUpTo(MapLines(lay), MaxRows)} : lay \in MapLayouts }

\* header lines of the delimiter study
HeaderChars == {"a", TAB, COMMA, PIPE}
HeaderLines == SeqsUpTo(HeaderChars, MaxHeaderLen)

NoFile == [exists |-> FALSE, lines |-> <<>>]
NoFrame == [columns |-> <<>>, rows |-> <<>>]
Absent == <<"absent">>

-----------------------------------------------------------------------------
(* main *)

Init ==
    /\ mgdef_file \in MainDefFiles
    /\ mapping_file \in MappingFiles
    /\ pc = "start"
    /\ err = "none"
    /\ cui_def_map = <<>>
    /\ mapping_df = NoFrame
    /\ colmap = <<>>
    /\ row_i = 0
    /\ ss = {}
    /\ results = <<>>
    /\ hpo_fallback = FALSE
    /\ output = Absent
    /\ header_line = <<>>
    /\ delim = ""

\* line 205: cui_def_map = read_mgdef_map(args.mgdef)
read_mgdef_map ==
    /\ pc = "start"
    /\ LET r == mgdef_result(mgdef_file)
       IN  IF r.err # "none"
           THEN /\ pc' = "failed"
                /\ err' = r.err
                /\ UNCHANGED cui_def_map
           ELSE /\ pc' = "mgdef_loaded"
                /\ cui_def_map' = r.map
                /\ UNCHANGED err
    /\ UNCHANGED <<mgdef_file, mapping_file, mapping_df, colmap, row_i, ss, results,
                   hpo_fallback, output, header_line, delim>>

\* line 209: mapping_df = read_medgen_mapping(args.mapping); on success main goes
\* on into build_list_of_dicts, which builds colmap (line 149) before its loop;
\* its other locals (lines 146, 155) are still empty
read_medgen_mapping ==
    /\ pc = "mgdef_loaded"
    /\ LET r == mapping_result(mapping_file)
       IN  IF r.err # "none"
           THEN /\ pc' = "failed"
                /\ err' = r.err
                /\ UNCHANGED <<mapping_df, colmap>>
           ELSE /\ pc' = "build"
                /\ mapping_df' = r.df
                /\ colmap' = make_colmap(r.df.columns)
                /\ UNCHANGED err
    /\ UNCHANGED <<mgdef_file, mapping_file, cui_def_map, row_i, ss, results,
                   hpo_fallback, output, header_line, delim>>

\* lines 156-190: one iteration of the row loop
build_row ==
    /\ pc = "build"
    /\ row_i < Len(mapping_df.rows)
    /\ LET row         == mapping_df.rows[row_i + 1]
           omim_cui    == get(colmap, row, N_OMIM_CUI)
           mim_number  == get(colmap, row, N_MIM_number)
           omim_name   == get(colmap, row, N_OMIM_name)
           hpo_cui     == get(colmap, row, N_HPO_CUI)
       IN  IF row_skipped(colmap, row, ss)
           THEN UNCHANGED <<ss, results, hpo_fallback>>
           ELSE /\ ss' = ss \cup {omim_cui}
                /\ hpo_fallback' = (hpo_fallback \/ takes_fallback(cui_def_map, omim_cui, hpo_cui))
                /\ results' = append_entry(results,
                                  entry(cui_def_map, mim_number, omim_name, omim_cui, hpo_cui))
    /\ row_i' = row_i + 1
    /\ UNCHANGED <<mgdef_file, mapping_file, pc, err, cui_def_map, mapping_df, colmap,
                   output, header_line, delim>>

\* line 192: return results
build_return ==
    /\ pc = "build"
    /\ row_i = Len(mapping_df.rows)
    /\ pc' = "built"
    /\ UNCHANGED <<mgdef_file, mapping_file, err, cui_def_map, mapping_df, colmap, row_i, ss,
                   results, hpo_fallback, output, header_line, delim>>

\* variant: the dump also runs after a failed step (an exception swallowed)
write_output_always ==
    /\ pc \in {"built", "failed"}
    /\ output' = <<"json", results>>
    /\ pc' = "done"
    /\ UNCHANGED <<mgdef_file, mapping_file, err, cui_def_map, mapping_df, colmap, row_i, ss,
                   results, hpo_fallback, header_line, delim>>

\* lines 216-217: open the output file and dump the list
write_output ==
    /\ pc = "built"
    /\ output' = <<"json", results>>
    /\ pc' = "done"
    /\ UNCHANGED <<mgdef_file, mapping_file, err, cui_def_map, mapping_df, colmap, row_i, ss,
                   results, hpo_fallback, header_line, delim>>

Next ==
    \/ read_mgdef_map
    \/ read_medgen_mapping
    \/ build_row
    \/ build_return
    \/ write_output

Spec == Init /\ [][Next]_vars

-----------------------------------------------------------------------------
(* read_mgdef_map on its own, over a wider family of definitions files *)

InitMgdef ==
    /\ mgdef_file \in DefStudyFiles \cup ErrorFiles
    /\ mapping_file = NoFile
    /\ pc = "start"
    /\ err = "none"
    /\ cui_def_map = <<>>
    /\ mapping_df = NoFrame
    /\ colmap = <<>>
    /\ row_i = 0
    /\ ss = {}
    /\ results = <<>>
    /\ hpo_fallback = FALSE
    /\ output = Absent
    /\ header_line = <<>>
    /\ delim = ""

NextMgdef == read_mgdef_map

SpecMgdef == InitMgdef /\ [][NextMgdef]_vars

-----------------------------------------------------------------------------
(* detect_delim_from_header on its own, over every short header line *)

InitDelim ==
    /\ header_line \in HeaderLines
    /\ delim = ""
    /\ pc = "detect"
    /\ mgdef_file = NoFile
    /\ mapping_file = NoFile
    /\ err = "none"
    /\ cui_def_map = <<>>
    /\ mapping_df = NoFrame
    /\ colmap = <<>>
    /\ row_i = 0
    /\ ss = {}
    /\ results = <<>>
    /\ hpo_fallback = FALSE
    /\ output = Absent

detect_delim ==
    /\ pc = "detect"
    /\ delim' = detect_delim_from_header(header_line)
    /\ pc' = "detected"
    /\ UNCHANGED <<mgdef_file, mapping_file, err, cui_def_map, mapping_df, colmap, row_i, ss,
                   results, hpo_fallback, output, header_line>>

NextDelim == detect_delim

SpecDelim == InitDelim /\ [][NextDelim]_vars

-----------------------------------------------------------------------------
(* Properties *)

\* the Mapping Table as build_list_of_dicts sees it
Rows == mapping_df.rows
RowCUI(k) == get(colmap, Rows[k], N_OMIM_CUI)
RowMIM(k) == get(colmap, Rows[k], N_MIM_number)
RowName(k) == get(colmap, Rows[k], N_OMIM_name)
RowHPO(k) == get(colmap, Rows[k], N_HPO_CUI)
Qualifies(k) == RowMIM(k) # <<>> /\ RowCUI(k) # <<>>

\* the Definition Table value for a CUI, "NA" when it has none
Lookup(c) == IF c \in DOMAIN cui_def_map THEN cui_def_map[c] ELSE NA

\* the record the specification assigns to row k
RowEntry(k) ==
    [_id                 |-> RowMIM(k),
     omim_id             |-> RowMIM(k),
     omim_disease        |-> RowName(k),
     medgen_concept_id   |-> RowCUI(k),
     medgen_disease_info |-> Lookup(RowCUI(k))]

\* C1: at every point of the row loop and after it, no two records of the
\* result list have the same medgen_concept_id.
C1_UniqueConceptId ==
    \A a, b \in 1..Len(results) :
        results[a].medgen_concept_id = results[b].medgen_concept_id => a = b

\* inside the loop, two records are out and a row repeating a used CUI was read
C1_Witness ==
    /\ pc = "build"
    /\ Len(results) = 2
    /\ \E j, k \in 1..row_i :
          j < k /\ Qualifies(j) /\ Qualifies(k) /\ RowCUI(j) = RowCUI(k)

\* the mapping file as the specification reads it: the lines after the header,
\* each cut at the header's delimiter, cells trimmed
MapDataLines ==
    SubSeq(mapping_file.lines, first_non_blank(mapping_file.lines) + 1,
           Len(mapping_file.lines))
MapDelim == detect_delim_from_header(mapping_header_clean(mapping_file.lines))
LineField(line, name) ==
    LET cells  == split(line, MapDelim)
        padded == [c \in 1..Len(mapping_df.columns) |->
                      IF c <= Len(cells) THEN cells[c] ELSE <<>>]
    IN  strip(get(colmap, padded, name))

\* C2: every output record has a non-empty _id and a non-empty
\* medgen_concept_id that are the trimmed MIM_number and OMIM_CUI fields of one
\* data line of the mapping file; a data line with an empty MIM_number or
\* OMIM_CUI field therefore contributes no record, wherever it stands.
C2_EmptyFieldLineExcluded ==
    pc \in {"build", "built", "done"} =>
        \A r \in 1..Len(results) :
            \E j \in 1..Len(MapDataLines) :
                /\ LineField(MapDataLines[j], N_MIM_number) # <<>>
                /\ LineField(MapDataLines[j], N_OMIM_CUI) # <<>>
                /\ results[r]._id = LineField(MapDataLines[j], N_MIM_number)
                /\ results[r].medgen_concept_id = LineField(MapDataLines[j], N_OMIM_CUI)

FirstRowWithCUI(c) ==
    CHOOSE k \in 1..Len(Rows) : RowCUI(k) = c /\ \A j \in 1..(k - 1) : RowCUI(j) # c

\* C3 as stated: among the rows carrying the same non-empty OMIM_CUI the first
\* in file order wins, so a record carries the MIM_number and OMIM_name of the
\* first row of the table that has its CUI.
C3_FirstRowWins ==
    \A r \in 1..Len(results) :
        LET k == FirstRowWithCUI(results[r].medgen_concept_id)
        IN  results[r]._id = RowMIM(k) /\ results[r].omim_disease = RowName(k)

\* the rows read so far that are the first with a MIM_number to carry their CUI
FirstQualifying(n) ==
    {k \in 1..n : Qualifies(k) /\
                  \A j \in 1..(k - 1) : ~(Qualifies(j) /\ RowCUI(j) = RowCUI(k))}

\* C3 (amended): among the rows carrying the same non-empty OMIM_CUI the first
\* one that also has a non-empty MIM_number wins: every record carries the
\* MIM_number and OMIM_name of that row, and every later row with the CUI is
\* left out (there are exactly as many records as such first rows read).
C3_FirstQualifyingRowWins ==
    /\ Len(results) = Cardinality(FirstQualifying(row_i))
    /\ \A r \in 1..Len(results) :
          \E k \in FirstQualifying(row_i) :
              /\ RowCUI(k) = results[r].medgen_concept_id
              /\ results[r]._id = RowMIM(k)
              /\ results[r].omim_disease = RowName(k)

\* three rows share a CUI: one without MIM_number, then two with different
\* MIM_numbers; the loop has finished
C3_Witness ==
    /\ pc = "done"
    /\ Len(results) = 1
    /\ \E i, j, k \in 1..Len(Rows) :
          /\ i < j /\ j < k
          /\ RowCUI(i) = RowCUI(j) /\ RowCUI(j) = RowCUI(k)
          /\ ~Qualifies(i) /\ Qualifies(j) /\ Qualifies(k)
          /\ RowMIM(j) # RowMIM(k)

\* C4: every record is built from one row read so far: _id and omim_id are its
\* MIM_number, omim_disease its OMIM_name, medgen_concept_id its OMIM_CUI, and
\* medgen_disease_info is the Definition Table value under that OMIM_CUI, or
\* "NA" when the table has no such key.
C4_RecordFields ==
    \A r \in 1..Len(results) :
        \E k \in 1..row_i :
            /\ results[r]._id = RowMIM(k)
            /\ results[r].omim_id = RowMIM(k)
            /\ results[r].omim_disease = RowName(k)
            /\ results[r].medgen_concept_id = RowCUI(k)
            /\ results[r].medgen_disease_info =
                  (IF RowCUI(k) \in DOMAIN cui_def_map
                   THEN cui_def_map[RowCUI(k)] ELSE NA)

\* a finished run with one record whose CUI has a definition and one without,
\* the latter from a row whose HPO_CUI does have a definition
C4_Witness ==
    /\ pc = "done"
    /\ \E a, b \in 1..Len(results) :
          /\ results[a].medgen_concept_id \in DOMAIN cui_def_map
          /\ results[a].medgen_disease_info # NA
          /\ results[b].medgen_concept_id \notin DOMAIN cui_def_map
          /\ results[b].medgen_disease_info = NA
    /\ \E k \in 1..row_i :
          Qualifies(k) /\ RowCUI(k) \notin DOMAIN cui_def_map
                       /\ RowHPO(k) \in DOMAIN cui_def_map

\* the definitions file as the specification reads it
DefIdx == first_non_blank(mgdef_file.lines)
DefSep == detect_delim_from_header(strip(mgdef_file.lines[DefIdx]))
DefTitles == split(mgdef_file.lines[DefIdx], DefSep)
DefData == SubSeq(mgdef_file.lines, DefIdx + 1, Len(mgdef_file.lines))
DefCell(k, key) ==
    LET cells == split(DefData[k], DefSep)
        pos   == CHOOSE c \in 1..Len(DefTitles) :
                    /\ lower(DefTitles[c]) = key
                    /\ \A b \in 1..(c - 1) : lower(DefTitles[b]) # key
    IN  IF pos <= Len(cells) THEN strip(cells[pos]) ELSE <<>>
DefValid(k) == DefCell(k, K_CUI) # <<>> /\ DefCell(k, K_DEF) # <<>>

\* C5: the keys of the Definition Table are the trimmed CUIs of the rows whose
\* trimmed CUI and DEF are both non-empty, and the value under a key is the
\* trimmed DEF of the first such row with that CUI.
C5_FirstDefinitionWins ==
    pc = "mgdef_loaded" =>
        /\ DOMAIN cui_def_map = {DefCell(k, K_CUI) : k \in {n \in 1..Len(DefData) : DefValid(n)}}
        /\ \A k \in 1..Len(DefData) :
              (/\ DefValid(k)
               /\ \A j \in 1..(k - 1) : ~(DefValid(j) /\ DefCell(j, K_CUI) = DefCell(k, K_CUI)))
              => cui_def_map[DefCell(k, K_CUI)] = DefCell(k, K_DEF)

\* a CUI with a first row without DEF and then two rows with different DEFs
C5_Witness ==
    /\ pc = "mgdef_loaded"
    /\ \E i, j, k \in 1..Len(DefData) :
          /\ i < j /\ j < k
          /\ DefCell(i, K_CUI) = DefCell(j, K_CUI) /\ DefCell(j, K_CUI) = DefCell(k, K_CUI)
          /\ DefCell(i, K_DEF) = <<>>
          /\ DefValid(j) /\ DefValid(k)
          /\ DefCell(j, K_DEF) # DefCell(k, K_DEF)
          /\ cui_def_map[DefCell(j, K_CUI)] = DefCell(j, K_DEF)

\* C6: no key and no value of the Definition Table is empty or untrimmed, and
\* a CUI that only occurs in rows with an empty DEF is not a key.
C6_NoBlankKeyOrValue ==
    /\ \A c \in DOMAIN cui_def_map :
          /\ c # <<>> /\ strip(c) = c
          /\ cui_def_map[c] # <<>> /\ strip(cui_def_map[c]) = cui_def_map[c]
    /\ pc = "mgdef_loaded" =>
          \A k \in 1..Len(DefData) :
              (\A j \in 1..Len(DefData) :
                    DefCell(j, K_CUI) = DefCell(k, K_CUI) => DefCell(j, K_DEF) = <<>>)
              => DefCell(k, K_CUI) \notin DOMAIN cui_def_map

\* a table was built from a file with a row lacking only its DEF, whose CUI
\* has no other row, and a row lacking only its CUI
C6_Witness ==
    /\ pc = "mgdef_loaded"
    /\ DOMAIN cui_def_map # {}
    /\ \E k \in 1..Len(DefData) :
          /\ DefCell(k, K_CUI) # <<>> /\ DefCell(k, K_DEF) = <<>>
          /\ DefCell(k, K_CUI) \notin DOMAIN cui_def_map
    /\ \E k \in 1..Len(DefData) :
          DefCell(k, K_CUI) = <<>> /\ DefCell(k, K_DEF) # <<>>

HeaderSet == {header_line[k] : k \in 1..Len(header_line)}

\* C7: the delimiter is tab if the header has a tab; otherwise comma if it has
\* a comma; otherwise pipe if it has a pipe; otherwise tab; never anything else.
C7_DelimPrecedence ==
    pc = "detected" =>
        /\ delim \in {TAB, COMMA, PIPE}
        /\ TAB \in HeaderSet => delim = TAB
        /\ (TAB \notin HeaderSet /\ COMMA \in HeaderSet) => delim = COMMA
        /\ (TAB \notin HeaderSet /\ COMMA \notin HeaderSet /\ PIPE \in HeaderSet)
              => delim = PIPE
        /\ HeaderSet \cap {TAB, COMMA, PIPE} = {} => delim = TAB

\* a header with a pipe before a comma and no tab
C7_Witness ==
    /\ pc = "detected"
    /\ Len(header_line) >= 2
    /\ header_line[1] = PIPE
    /\ COMMA \in HeaderSet
    /\ TAB \notin HeaderSet
    /\ delim = COMMA

\* C8: the output file exists only in a finished run in which both readers
\* succeeded and the row loop consumed every row; a failure stops the run at
\* once, with no output, no row read, and nothing loaded after the failed step.
C8_NoOutputOnFailure ==
    /\ output # Absent =>
          /\ pc = "done" /\ err = "none"
          /\ mgdef_result(mgdef_file).err = "none"
          /\ mapping_result(mapping_file).err = "none"
          /\ row_i = Len(Rows)
          /\ output = <<"json", results>>
    /\ (err # "none") <=> (pc = "failed")
    /\ pc = "failed" =>
          /\ output = Absent /\ row_i = 0 /\ results = <<>>
          /\ mapping_df = NoFrame /\ colmap = <<>>
          /\ err \in {"NotFound", "EmptyInput", "MissingColumns", "DuplicateNames"}
          /\ mgdef_result(mgdef_file).err # "none" => cui_def_map = <<>>

\* the mapping file was found empty after the definitions were loaded
C8_Witness ==
    /\ pc = "failed"
    /\ err = "EmptyInput"
    /\ DOMAIN cui_def_map # {}
    /\ output = Absent

\* C9: the HPO_CUI lookup never runs: no Definition Table value is empty, the
\* OMIM_CUI lookup of no row gives "", and medgen_disease_info of every record
\* is the lookup of its own medgen_concept_id.
C9_FallbackUnreachable ==
    /\ hpo_fallback = FALSE
    /\ \A c \in DOMAIN cui_def_map : cui_def_map[c] # <<>>
    /\ \A k \in 1..Len(Rows) : Lookup(RowCUI(k)) # <<>>
    /\ \A r \in 1..Len(results) :
          results[r].medgen_disease_info = Lookup(results[r].medgen_concept_id)

\* a record was built from a row whose OMIM_CUI has no definition while its
\* HPO_CUI has one
C9_Witness ==
    /\ pc \in {"build", "built"}
    /\ \E k \in 1..row_i :
          /\ Qualifies(k)
          /\ RowCUI(k) \notin DOMAIN cui_def_map
          /\ RowHPO(k) \in DOMAIN cui_def_map
          /\ \E r \in 1..Len(results) :
                /\ results[r].medgen_concept_id = RowCUI(k)
                /\ results[r].medgen_disease_info = NA

\* the records are those of some rows read so far, in row order
C10_Order ==
    /\ \E Q \in SUBSET (1..row_i) : results = Mask([k \in 1..row_i |-> RowEntry(k)], Q)
    /\ Len(results) <= Len(Rows)

\* a step leaves the list alone or adds one record at its end
C10_Append ==
    \/ results' = results
    \/ /\ Len(results') = Len(results) + 1
       /\ SubSeq(results', 1, Len(results)) = results

\* C10: the result list only grows by appending, and at every moment its
\* records are the records of distinct rows read so far, in the order of those
\* rows; so it is never longer than the table.
C10_FirstSeenOrder == []C10_Order /\ [][C10_Append]_vars

\* two different records are out, from rows that are not adjacent
C10_Witness ==
    /\ pc = "done"
    /\ Len(results) = 2
    /\ results[1] # results[2]
    /\ Len(Rows) = 3
    /\ ~Qualifies(2)

====
